---- MODULE Spec2Model ----
(***************************************************************************)
(* EventBusSrv and EventBusGroup of packages/grafana-data/src/utils/       *)
(* EventBus.ts, on top of the rxjs 6 Subject / filter / Subscription       *)
(* primitives the file imports.                                            *)
(*                                                                         *)
(* The bus is single threaded and dispatch is synchronous and re-entrant:  *)
(* a handler runs inside Subject.next and may itself call any operation of *)
(* the bus.  The call stack of nested Subject.next calls is the variable   *)
(* stack; whenever it is not empty, the handler of its top frame is        *)
(* running and is the caller of the next operation.                        *)
(***************************************************************************)
EXTENDS Integers, Sequences, FiniteSets

\* Bounds of the model: the calls of one run that subscribe or emit, plus
\* the calls that leave the bus as it was.
MaxCalls == 3
MaxTypedCalls == 4

Tags == {"A", "B"}
Payloads == {42}
Groups == {"G1", "G2"}

VARIABLES
    observers,   \* Subject.observers: subscription ids, in subscription order
    subs,        \* every handler ever passed to $on / on, by id, with the
                 \* subscription made for it
    groupSub,    \* per EventBusGroup: its groupSub composite
    stack,       \* frames of the Subject.next calls in progress
    events,      \* every value pushed on eventStream, by emission id
    log,         \* every handler invocation, in order
    reported,    \* errors handed to rxjs's hostReportError (rethrown later)
    last,        \* the most recent call and what it raised to its caller
    idle,        \* number of calls so far that left the bus as it was
    offs         \* every call of the legacy off, in order

vars == <<observers, subs, groupSub, stack, events, log, reported, last, idle, offs>>

\* The calls counted against the bounds.
Calls == Len(subs) + Len(events) + idle

Range(s) == {s[k] : k \in DOMAIN s}

Min(S) == CHOOSE x \in S : \A y \in S : x <= y

\* The emissions whose Subject.next call has not returned yet.
InProgress == {stack[k].em : k \in DOMAIN stack}

----------------------------------------------------------------------------
\* Arguments of the API.

\* A BusEventType: the constructor with its static type tag.
BusEventType == [type : Tags]

\* A BusEvent instance: this.type is the constructor's tag, payload as given.
BusEvent == [type : Tags, payload : Payloads]

\* What the legacy functions take: a string, or an AppEvent descriptor {name}.
LegacyArg == [str : Tags] \cup [name : Tags]

\* typeof event === 'string'
IsString(event) == "str" \in DOMAIN event

----------------------------------------------------------------------------
\* The rxjs pieces the bus is built from.

\* A filter that lets every event through.
FilterPassesAll(sub, value) == TRUE

\* filter(event => event.type === typeFilter.type), and the same test on
\* event.name in the legacy on.
FilterPasses(sub, value) == value.type = sub.tag

\* A subscriber that takes the value although it was unsubscribed.
AcceptsClosed(sub, value) == value.type = sub.tag

\* Subscriber.next: a stopped (unsubscribed) subscriber ignores the value.
Accepts(sub, value) == ~sub.closed /\ FilterPasses(sub, value)

\* A subscribe that hands every handler the event record itself.
HandlerArgWhole(sub, value) == [type |-> value.type, payload |-> value.payload]

\* A subscribe that unwraps the payload for every handler.
HandlerArgUnwraps(sub, value) == [unwrapped |-> value.payload]

\* What the handler is called with: $on subscribes the handler itself, the
\* legacy on wraps it in streamEvent => handler(streamEvent.payload).
HandlerArg(sub, value) ==
    IF sub.via = "$on"
    THEN [type |-> value.type, payload |-> value.payload]
    ELSE [unwrapped |-> value.payload]

\* A Subject.next that iterates over observers itself, not over a copy.
IteratedLive(frame) == observers

\* The list a Subject.next call iterates over: the copy of observers it took
\* when it was called.
Iterated(frame) == frame.copy

\* A loop that steps over the subscriber after the one it just served.
NextIdxSkipsOne(list, i, value, ss) ==
    LET C == {j \in (i + 2)..Len(list) : ~ss[list[j]].closed /\ value.type = ss[list[j]].tag}
    IN  IF C = {} THEN 0 ELSE Min(C)

\* The index of the next subscriber after position i that takes the value,
\* or 0 when the loop runs to its end.
NextIdx(list, i, value, ss) ==
    LET C == {j \in (i + 1)..Len(list) : Accepts(ss[list[j]], value)}
    IN  IF C = {} THEN 0 ELSE Min(C)

\* Subject.next's loop from position frame.i on, with the frames below it in
\* base: it runs up to the next handler it calls (which then runs on top of
\* the stack), or to its end (the call returns to its caller).
Loop(base, frame, evs, ss) ==
    LET value == evs[frame.em]
        j == NextIdx(Iterated(frame), frame.i, value, ss)
        h == Iterated(frame)[j]
    IN  IF j = 0
        THEN /\ stack' = base
             /\ events' = [evs EXCEPT ![frame.em].outcome = "returned",
                                      ![frame.em].end = Len(log)]
             /\ log' = log
        ELSE /\ stack' = Append(base, [frame EXCEPT !.i = j, !.h = h])
             /\ events' = evs
             /\ log' = Append(log, [h |-> h, em |-> frame.em,
                                    arg |-> HandlerArg(ss[h], value)])

\* Subscription.unsubscribe of the subscriptions in S: each one not yet closed
\* is closed (its subscriber stopped), taken out of Subject.observers and out
\* of its parent composite.
SubsAfterUnsub(S) ==
    [s \in DOMAIN subs |->
        IF s \in S /\ ~subs[s].closed
        THEN [subs[s] EXCEPT !.closed = TRUE,
                             !.closedAt = [em |-> Len(events), during |-> InProgress,
                                           seen |-> Len(log)]]
        ELSE subs[s]]

\* observers.splice(index) for splice(index, 1): the subscribers after the
\* first released one go too.
ObserversAfterUnsubTail(S) ==
    LET hit == {k \in DOMAIN observers : observers[k] \in S}
    IN  IF hit = {} THEN observers ELSE SubSeq(observers, 1, Min(hit) - 1)

ObserversAfterUnsub(S) == SelectSeq(observers, LAMBDA s : s \notin S)

GroupsAfterUnsub(S) ==
    [g \in Groups |-> [groupSub[g] EXCEPT !.subs = @ \ S]]

\* Subject.next(value): pushes a value on the stream.
Subject_next(value, call) ==
    /\ LET em == Len(events) + 1
           evs == Append(events, [type |-> value.type, payload |-> value.payload,
                                  call |-> call, outcome |-> "dispatching",
                                  during |-> InProgress, end |-> 0])
       IN  Loop(stack, [em |-> em, copy |-> observers, i |-> 0, h |-> 0], evs, subs)
    /\ UNCHANGED <<observers, subs, groupSub, reported, idle, offs>>

\* The record of a handler passed to $on / on and of the subscriber that
\* eventStream.pipe(filter(..)).subscribe({next: ..}) makes for it.
NewSub(tag, via, group, closed) ==
    [tag |-> tag, via |-> via, group |-> group, closed |-> closed,
     released |-> closed,
     created |-> Len(events), during |-> InProgress,
     closedAt |-> [em |-> Len(events), during |-> InProgress, seen |-> Len(log)]]

\* A dispatch that goes on with the outermost Subject.next call.
RunningOutermost(stk) == stk[1]

\* The frame whose handler is running: the innermost Subject.next call.
Running(stk) == stk[Len(stk)]

----------------------------------------------------------------------------
\* EventBusSrv

Init ==
    /\ observers = <<>>
    /\ subs = <<>>
    /\ groupSub = [g \in Groups |->
                        [defined |-> FALSE, closed |-> FALSE, subs |-> {}, closedAt |-> 0]]
    /\ stack = <<>>
    /\ events = <<>>
    /\ log = <<>>
    /\ reported = {}
    /\ last = [op |-> "new", h |-> 0, g |-> "", raised |-> "none", again |-> FALSE]
    /\ idle = 0
    /\ offs = <<>>

\* What a call leaves behind: its name, the handler or group it was made
\* for, the error it raised to its caller, and whether it found nothing to do.
Called(op, h, g, raised, again) ==
    /\ last' = [op |-> op, h |-> h, g |-> g, raised |-> raised, again |-> again]
    /\ idle' = idle + (IF again THEN 1 ELSE 0)

\* The call of $emit / emit as its caller made it.
EmitCall(op, tag, payload) == [op |-> op, tag |-> tag, payload |-> payload]

\* $emit(event)
Bus_emit(event) ==
    /\ Subject_next(event, EmitCall("$emit", event.type, event.payload))
    /\ last' = [op |-> "$emit", h |-> 0, g |-> "", raised |-> "none", again |-> FALSE]

\* $on(typeFilter, handler)
Bus_on(typeFilter) ==
    /\ subs' = Append(subs, NewSub(typeFilter.type, "$on", "", FALSE))
    /\ observers' = Append(observers, Len(subs) + 1)
    /\ Called("$on", Len(subs) + 1, "", "none", FALSE)
    /\ UNCHANGED <<groupSub, stack, events, log, reported, offs>>

\* unsubscribe() on the handle $on returned for subscription s.
Handle_unsubscribe(s) ==
    /\ s \in DOMAIN subs
    /\ subs[s].via = "$on"
    /\ subs' = SubsAfterUnsub({s})
    /\ observers' = ObserversAfterUnsub({s})
    /\ groupSub' = GroupsAfterUnsub({s})
    /\ Called("unsubscribe", s, "", "none", subs[s].closed)
    /\ UNCHANGED <<stack, events, log, reported, offs>>

\* The running handler returns: the Subject.next that called it goes on.
HandlerReturn ==
    /\ stack # <<>>
    /\ Loop(SubSeq(stack, 1, Len(stack) - 1), Running(stack), events, subs)
    /\ UNCHANGED <<observers, subs, groupSub, reported, last, idle, offs>>

\* A Subject.next that lets the handler's error through to its caller: its
\* loop is abandoned and the error raised.
LoopAfterThrowAborts(base, frame, evs, ss) ==
    /\ stack' = base
    /\ events' = [evs EXCEPT ![frame.em].outcome = "raised",
                             ![frame.em].end = Len(log)]
    /\ log' = log

\* What becomes of the Subject.next call whose handler threw: the error was
\* caught by SafeSubscriber.__tryOrUnsub, so its loop goes on.
LoopAfterThrow(base, frame, evs, ss) == Loop(base, frame, evs, ss)

\* The running handler throws: SafeSubscriber.__tryOrUnsub unsubscribes its
\* subscription and hands the error to hostReportError.
Thrown ==
    LET frame == Running(stack)
    IN  /\ subs' = SubsAfterUnsub({frame.h})
        /\ observers' = ObserversAfterUnsub({frame.h})
        /\ groupSub' = GroupsAfterUnsub({frame.h})
        /\ reported' = reported \cup {<<frame.h, frame.em>>}
        /\ LoopAfterThrow(SubSeq(stack, 1, Len(stack) - 1), frame, events, subs')

HandlerThrow ==
    /\ stack # <<>>
    /\ Thrown
    /\ UNCHANGED <<last, idle, offs>>

\* The name the legacy functions route on: the string, or event.name.
LegacyName(event) == IF IsString(event) THEN event.str ELSE event.name

\* A legacy emit that routes on another tag than the name it was given.
LegacyRecordOtherTag(event, payload) ==
    [type |-> CHOOSE t \in Tags :
                  t # (IF "str" \in DOMAIN event THEN event.str ELSE event.name),
     payload |-> payload]

\* A legacy emit that leaves the payload out of the record (0 for undefined).
LegacyRecordNoPayload(event, payload) ==
    [type |-> IF "str" \in DOMAIN event THEN event.str ELSE event.name, payload |-> 0]

\* The record the legacy emit pushes: {type: event, payload} for a string,
\* {type: event.name, payload} for a descriptor.
LegacyRecord(event, payload) == [type |-> LegacyName(event), payload |-> payload]

\* Legacy emit(event, payload)
emit(event, payload) ==
    /\ Subject_next(LegacyRecord(event, payload),
                    EmitCall(IF IsString(event) THEN "emit_string" ELSE "emit_descriptor",
                             LegacyName(event), payload))
    /\ last' = [op |-> "emit", h |-> 0, g |-> "", raised |-> "none", again |-> FALSE]

\* A legacy on without the early return of the string form.
on_subscribesAlways(event) == TRUE

\* Legacy on: whether the call gets past the early return of the string form.
on_subscribes(event) == ~IsString(event)

\* Legacy on(event, handler)
on(event) ==
    /\ subs' = Append(subs, NewSub(LegacyName(event),
                                   IF IsString(event) THEN "on_string" ELSE "on",
                                   "", FALSE))
    /\ observers' = IF on_subscribes(event)
                    THEN Append(observers, Len(subs) + 1)
                    ELSE observers
    /\ Called("on", Len(subs) + 1, "", "none", FALSE)
    /\ UNCHANGED <<groupSub, stack, events, log, reported, offs>>

\* The registration an off(event, handler) call names: the handler's, when on
\* was called with the same event argument and that handler, else none (0).
OffFor(event, h) ==
    IF /\ h # 0
       /\ subs[h].via = (IF IsString(event) THEN "on_string" ELSE "on")
       /\ subs[h].tag = LegacyName(event)
    THEN h ELSE 0

\* Legacy off(event, handler): both branches call this.emitter.off, and the
\* class has no emitter, so the call raises a TypeError; raised inside a
\* handler, it is that handler throwing.
off(event, h) ==
    /\ offs' = Append(offs, [h |-> OffFor(event, h), at |-> Len(events),
                             raised |-> "TypeError"])
    /\ Called("off", OffFor(event, h), "", "TypeError", TRUE)
    /\ IF stack = <<>>
       THEN UNCHANGED <<observers, subs, groupSub, stack, events, log, reported>>
       ELSE Thrown

----------------------------------------------------------------------------
\* EventBusGroup

\* A group that stops emitting once its unsubscribe() was called.
Group_emitUnlessClosed(g, event) ==
    IF groupSub[g].closed
    THEN /\ Called("$emit", 0, g, "none", TRUE)
         /\ UNCHANGED <<observers, subs, groupSub, stack, events, log, reported, offs>>
    ELSE /\ Subject_next(event, [op |-> "$emit", tag |-> event.type,
                                 payload |-> event.payload])
         /\ last' = [op |-> "$emit", h |-> 0, g |-> g, raised |-> "none", again |-> FALSE]

\* $emit(event)
Group_emit(g, event) ==
    /\ Subject_next(event, EmitCall("$emit", event.type, event.payload))
    /\ last' = [op |-> "$emit", h |-> 0, g |-> g, raised |-> "none", again |-> FALSE]

\* An addToGroupSub that makes a new composite when the old one is closed.
addToGroupSubRenews(gs) ==
    [gs EXCEPT !.defined = TRUE, !.closed = FALSE, !.subs = {}]

\* addToGroupSub: the composite is created on first use.
addToGroupSub(gs) == [gs EXCEPT !.defined = TRUE]

\* Subscription.add on a closed composite unsubscribes the child at once.
ReleasedOnAdd(gs) == gs.closed

\* A composite whose add returns nothing (0 for undefined).
ReturnedByAddNone(childSub) == 0

\* What groupSub.add(childSub) returns, and addToGroupSub and $on after it:
\* the child it was given.
ReturnedByAdd(childSub) == childSub

\* $on(typeFilter, handler)
Group_on(g, typeFilter) ==
    /\ LET n == Len(subs) + 1
           gs == addToGroupSub(groupSub[g])
       IN  IF ReleasedOnAdd(gs)
           THEN /\ subs' = Append(subs, NewSub(typeFilter.type, "$on", g, TRUE))
                /\ observers' = observers
                /\ groupSub' = [groupSub EXCEPT ![g] = gs]
           ELSE /\ subs' = Append(subs, NewSub(typeFilter.type, "$on", g, FALSE))
                /\ observers' = Append(observers, n)
                /\ groupSub' = [groupSub EXCEPT ![g] = [gs EXCEPT !.subs = @ \cup {n}]]
    /\ Called("$on", ReturnedByAdd(Len(subs) + 1), g, "none", FALSE)
    /\ UNCHANGED <<stack, events, log, reported, offs>>

\* An unsubscribe() without the test.
HasGroupSubAlways(g) == TRUE

\* unsubscribe(): the test if (this.groupSub).
HasGroupSub(g) == groupSub[g].defined

\* A composite that lost its children.
GroupReleasesNone(g) == {}

\* The subscriptions groupSub.unsubscribe() releases: the children of a
\* composite that is not closed yet.
GroupReleases(g) ==
    IF ~groupSub[g].closed THEN groupSub[g].subs ELSE {}

\* unsubscribe()
Group_unsubscribe(g) ==
    /\ IF HasGroupSub(g)
       THEN IF groupSub[g].defined
            THEN /\ subs' = SubsAfterUnsub(GroupReleases(g))
                 /\ observers' = ObserversAfterUnsub(GroupReleases(g))
                 /\ groupSub' = [GroupsAfterUnsub(GroupReleases(g)) EXCEPT
                                     ![g].closed = TRUE,
                                     ![g].closedAt = IF groupSub[g].closed
                                                     THEN @ ELSE Len(events)]
                 /\ Called("group.unsubscribe", 0, g, "none", groupSub[g].closed)
            ELSE \* unsubscribe of undefined
                 /\ Called("group.unsubscribe", 0, g, "TypeError", TRUE)
                 /\ UNCHANGED <<observers, subs, groupSub>>
       ELSE /\ Called("group.unsubscribe", 0, g, "none", TRUE)
            /\ UNCHANGED <<observers, subs, groupSub>>
    /\ UNCHANGED <<stack, events, log, reported, offs>>

----------------------------------------------------------------------------
\* The whole API, called from outside or from a running handler.  Room keeps
\* a run within max calls.  The tags and the groups are interchangeable names,
\* so a run is taken up to renaming: the first tag it uses is "A", and the
\* first group it subscribes through is "G1".

Room(max) == Calls < max

\* The handlers a caller holds to pass to off: those it passed to on.
LegacyHandlers == {s \in DOMAIN subs : subs[s].via \in {"on", "on_string"}}

Named(tag) == tag = "A" \/ Len(subs) + Len(events) > 0

GroupNamed(g) == g = "G1" \/ groupSub["G1"].defined

Step(max) ==
    \/ \E event \in BusEvent : Room(max) /\ Named(event.type) /\ Bus_emit(event)
    \/ \E typeFilter \in BusEventType : Room(max) /\ Named(typeFilter.type) /\ Bus_on(typeFilter)
    \/ \E s \in DOMAIN subs : (subs[s].closed => Room(max)) /\ Handle_unsubscribe(s)
    \/ HandlerReturn
    \/ HandlerThrow
    \/ \E event \in LegacyArg, payload \in Payloads :
            Room(max) /\ Named(LegacyName(event)) /\ emit(event, payload)
    \/ \E event \in LegacyArg : Room(max) /\ Named(LegacyName(event)) /\ on(event)
    \/ \E event \in LegacyArg, h \in {0} \cup LegacyHandlers :
            Room(max) /\ off(event, h)
    \/ \E g \in Groups, event \in BusEvent :
            Room(max) /\ Named(event.type) /\ Group_emit(g, event)
    \/ \E g \in Groups, typeFilter \in BusEventType :
            Room(max) /\ Named(typeFilter.type) /\ GroupNamed(g) /\ Group_on(g, typeFilter)
    \/ \E g \in Groups :
            /\ (~groupSub[g].defined \/ groupSub[g].closed) => Room(max)
            /\ Group_unsubscribe(g)

Next == Step(MaxCalls)

Spec == Init /\ [][Next]_vars

\* The typed surface of EventBusSrv alone, in longer runs.
TypedStep(max) ==
    \/ \E event \in BusEvent : Room(max) /\ Named(event.type) /\ Bus_emit(event)
    \/ \E typeFilter \in BusEventType : Room(max) /\ Named(typeFilter.type) /\ Bus_on(typeFilter)
    \/ \E s \in DOMAIN subs : (subs[s].closed => Room(max)) /\ Handle_unsubscribe(s)
    \/ HandlerReturn
    \/ HandlerThrow

NextTyped == TypedStep(MaxTypedCalls)

SpecTyped == Init /\ [][NextTyped]_vars

----------------------------------------------------------------------------
\* What the history says.

\* The invocations of handler s for emission e.
Invocations(s, e) == {k \in DOMAIN log : log[k].h = s /\ log[k].em = e}

\* emit(e) has returned (or raised).
Done(e) == events[e].outcome # "dispatching"

\* s was subscribed when emit(e) was called: it was registered before the
\* call and not unsubscribed before it.
ActiveAt(s, e) ==
    /\ subs[s].via # "on_string"
    /\ subs[s].created < e
    /\ subs[s].closed => subs[s].closedAt.em >= e

Matches(s, e) == subs[s].tag = events[e].type

Typed(s) == subs[s].via = "$on"

\* s was unsubscribed while e was being dispatched, before e reached it.
ReleasedDuring(s, e) ==
    /\ subs[s].closed
    /\ e \in subs[s].closedAt.during
    /\ Invocations(s, e) = {}

\* The invocations for one emission follow the order of registration.
InRegistrationOrder ==
    \A k1, k2 \in DOMAIN log :
        (log[k1].em = log[k2].em /\ log[k1].h < log[k2].h) => k1 < k2

----------------------------------------------------------------------------
C2_TagEquality ==
    \A k \in DOMAIN log : subs[log[k].h].tag = events[log[k].em].type

\* A legacy emit served to the handler of its tag while a handler of the
\* other tag was subscribed, and stays so.
C2_Witness ==
    \E e \in DOMAIN events, s, t \in DOMAIN subs :
        /\ events[e].call.op = "emit_string" /\ Done(e)
        /\ Typed(s) /\ ActiveAt(s, e) /\ Matches(s, e) /\ Invocations(s, e) # {}
        /\ Typed(t) /\ ActiveAt(t, e) /\ ~Matches(t, e) /\ ~subs[t].closed
        /\ Invocations(t, e) = {}

\* C3: a handler is invoked only for events whose emit call began after its
\* subscription was created and before it was unsubscribed.
C3_NoReplay ==
    \A k \in DOMAIN log :
        LET s == log[k].h
            e == log[k].em
        IN  /\ subs[s].created < e
            /\ subs[s].closed => subs[s].closedAt.em >= e

\* A subscription made by a handler while an event of its tag was being
\* dispatched, still active after that emit returned, and not invoked for it.
C3_Witness ==
    \E e \in DOMAIN events, s \in DOMAIN subs :
        /\ e \in subs[s].during /\ Matches(s, e) /\ Done(e)
        /\ s \in Range(observers)
        /\ Invocations(s, e) = {}

\* C4: unsubscribe() of a handle removes its own registration and nothing
\* else: the handler is invoked for no emit called later, the other
\* subscriptions stay as they were and go on being served, and a repeated
\* call changes nothing and raises nothing.
C4_Step ==
    \A s \in DOMAIN subs :
        Handle_unsubscribe(s) =>
            /\ subs'[s].closed
            /\ \A t \in DOMAIN subs : t # s => subs'[t] = subs[t]
            /\ observers' = SelectSeq(observers, LAMBDA t : t # s)
            /\ last'.raised = "none"
            /\ subs[s].closed =>
                  UNCHANGED <<observers, subs, groupSub, stack, events, log, reported>>

C4_Served ==
    /\ \A k \in DOMAIN log :
          subs[log[k].h].closed => log[k].em <= subs[log[k].h].closedAt.em
    /\ \A e \in DOMAIN events, t \in DOMAIN subs :
          (Done(e) /\ ActiveAt(t, e) /\ Matches(t, e) /\ ~subs[t].closed) =>
              Cardinality(Invocations(t, e)) = 1

C4_Unsubscribe == [](C4_Served) /\ [][C4_Step]_vars

\* A handle unsubscribed a second time, after an event of its tag emitted
\* since its first unsubscribe went to another handler and not to its own.
C4_Witness ==
    /\ last.op = "unsubscribe" /\ last.again
    /\ \E e \in DOMAIN events, t \in DOMAIN subs :
          /\ t # last.h /\ Matches(last.h, e) /\ subs[last.h].created < e
          /\ e > subs[last.h].closedAt.em
          /\ Invocations(t, e) # {} /\ Invocations(last.h, e) = {}

\* C5: a group's unsubscribe() closes every subscription added through the
\* group, none of which is invoked for an emit called later, and leaves every
\* other subscription of the bus as it was and served.
C5_Step ==
    \A g \in Groups :
        Group_unsubscribe(g) =>
            /\ \A s \in DOMAIN subs :
                  IF subs[s].group = g
                  THEN subs'[s].closed /\ s \notin Range(observers')
                  ELSE subs'[s] = subs[s]
            /\ observers' = SelectSeq(observers, LAMBDA s : subs[s].group # g)
            /\ \A o \in Groups \ {g} : groupSub'[o] = groupSub[o]

C5_Served ==
    /\ \A k \in DOMAIN log :
          LET g == subs[log[k].h].group
          IN  (g # "" /\ groupSub[g].closed) => log[k].em <= groupSub[g].closedAt
    /\ \A g \in Groups, e \in DOMAIN events, t \in DOMAIN subs :
          (/\ groupSub[g].closed /\ e > groupSub[g].closedAt /\ Done(e)
           /\ subs[t].group # g /\ ActiveAt(t, e) /\ Matches(t, e) /\ ~subs[t].closed) =>
              Cardinality(Invocations(t, e)) = 1

C5_GroupUnsubscribe == [](C5_Served) /\ [][C5_Step]_vars

\* After a group's unsubscribe(), an event of the tag of one of its
\* subscriptions was served to a subscription made elsewhere and not to it.
C5_Witness ==
    \E g \in Groups, e \in DOMAIN events, s, t \in DOMAIN subs :
        /\ groupSub[g].closed /\ e > groupSub[g].closedAt /\ Done(e)
        /\ subs[s].group = g /\ subs[s].created < groupSub[g].closedAt + 1
        /\ Matches(s, e) /\ Invocations(s, e) = {}
        /\ subs[t].group # g /\ Invocations(t, e) # {}

\* C6: a group's unsubscribe() on a group that never got a subscription, or
\* called again, raises nothing and changes no subscription.
C6_Step ==
    \A g \in Groups :
        (Group_unsubscribe(g) /\ (~groupSub[g].defined \/ groupSub[g].closed)) =>
            /\ last'.raised = "none"
            /\ UNCHANGED <<observers, subs, groupSub, stack, events, log, reported>>

C6_GroupUnsubscribeIdle ==
    /\ [](last.op = "group.unsubscribe" => last.raised = "none")
    /\ [][C6_Step]_vars

\* unsubscribe() called a second time on a group, with a subscription made
\* elsewhere active on the bus.
C6_Witness ==
    /\ last.op = "group.unsubscribe" /\ last.again
    /\ groupSub[last.g].closed
    /\ \E h \in DOMAIN subs : subs[h].group = last.g
    /\ observers # <<>>

\* C7 as stated: of two emissions, every invocation for the one emitted first
\* happens before every invocation for the one emitted second.
C7_AsStated ==
    \A a, b \in DOMAIN log : log[a].em < log[b].em => a < b

\* C7 as amended: of two emissions A then B, every invocation for A happens
\* before every invocation for B when B is emitted after emit(A) returned;
\* when B is emitted by a handler while A is being dispatched, the dispatch
\* of B runs to its end first, and the dispatch of A goes on after it.
C7_Ordering ==
    \A a, b \in DOMAIN log :
        log[a].em < log[b].em =>
            \/ a < b
            \/ /\ log[a].em \in events[log[b].em].during
               /\ events[log[b].em].outcome = "returned"
               /\ events[log[b].em].end < a

\* A handler emitted B while A was being dispatched, and A then went on to
\* its next handler.
C7_Witness ==
    \E a, b \in DOMAIN log : log[a].em < log[b].em /\ b < a

\* C8 as stated: when a handler throws during the dispatch of E, the error is
\* raised to the caller of $emit(E) and no handler registered after the
\* throwing one is invoked for E.
C8_AsStated ==
    \A r \in reported :
        Done(r[2]) =>
            /\ events[r[2]].outcome = "raised"
            /\ \A t \in DOMAIN subs : t > r[1] => Invocations(t, r[2]) = {}

\* C8 as amended: when a handler throws during the dispatch of E, the error
\* is not raised to the caller of $emit(E): the subscription of the throwing
\* handler is unsubscribed, the error is reported asynchronously, the emit
\* returns normally, and the matching handlers registered after the throwing
\* one that stay subscribed are each invoked once for E.
C8_ThrowIsolated ==
    \A r \in reported :
        /\ subs[r[1]].closed
        /\ events[r[2]].outcome # "raised"
        /\ Done(r[2]) =>
              \A t \in DOMAIN subs :
                  (t > r[1] /\ ActiveAt(t, r[2]) /\ Matches(t, r[2]) /\ ~subs[t].closed) =>
                      Cardinality(Invocations(t, r[2])) = 1

\* A handler threw, and the emit went on to a handler registered after it
\* and returned.
C8_Witness ==
    \E r \in reported, t \in DOMAIN subs :
        /\ t > r[1] /\ Done(r[2])
        /\ Invocations(r[1], r[2]) # {} /\ Invocations(t, r[2]) # {}

\* What a typed handler gets for a legacy emit(name, payload): the record
\* {type: name, payload}.
C9_Record(e) == [type |-> events[e].call.tag, payload |-> events[e].call.payload]

C10_Step ==
    \A event \in [str : Tags] :
        on(event) =>
            /\ observers' = observers
            /\ \A s \in DOMAIN subs : subs'[s] = subs[s]
            /\ groupSub' = groupSub
            /\ last'.raised = "none"

C10_Never ==
    \A s \in DOMAIN subs :
        subs[s].via = "on_string" =>
            /\ s \notin Range(observers)
            /\ \A e \in DOMAIN events : Invocations(s, e) = {}

C10_OnStringIdle == [](C10_Never) /\ [][C10_Step]_vars

\* A legacy emit with the name a handler was passed to on with before, done.
C10_Witness ==
    \E s \in DOMAIN subs, e \in DOMAIN events :
        /\ subs[s].via = "on_string" /\ subs[s].created < e
        /\ events[e].call.op = "emit_string" /\ Matches(s, e) /\ Done(e)

\* C11: a legacy off(descriptor, handler) removes the handler registered with
\* on(descriptor, handler): the handler is invoked for no emission of the
\* descriptor's name whose emit is called after the off call.
C11_AsStated ==
    \A k \in DOMAIN offs, e \in DOMAIN events :
        LET h == offs[k].h
        IN  (h # 0 /\ subs[h].via = "on" /\ e > offs[k].at /\ Matches(h, e)) =>
                Invocations(h, e) = {}

\* C12: a legacy off(name, handler) with a string name, for a handler passed
\* to on(name, handler), raises nothing and leaves the subscriptions of the
\* bus as they are.
C12_Step ==
    \A event \in [str : Tags], h \in LegacyHandlers :
        (off(event, h) /\ OffFor(event, h) # 0) =>
            /\ last'.raised = "none"
            /\ observers' = observers
            /\ subs' = subs
            /\ groupSub' = groupSub

C12_AsStated == [][C12_Step]_vars

\* A subscription made by the legacy on with a descriptor.
Legacy(s) == subs[s].via = "on"

\* C13 as stated: the handler passed to on(descriptor, handler) is invoked
\* exactly once, with the payload alone, for every event pushed later whose
\* type is the descriptor's name, and for no event of another type.
C13_AsStated ==
    \A s \in DOMAIN subs, e \in DOMAIN events :
        Legacy(s) =>
            /\ \A k \in Invocations(s, e) :
                  Matches(s, e) /\ log[k].arg = [unwrapped |-> events[e].payload]
            /\ (subs[s].created < e /\ Matches(s, e)) =>
                  /\ Cardinality(Invocations(s, e)) <= 1
                  /\ Done(e) => Cardinality(Invocations(s, e)) = 1

\* C13 as amended: the handler passed to on(descriptor, handler) is invoked
\* exactly once, with the payload alone, for every event of the descriptor's
\* name pushed later while its subscription stands, and for no event of
\* another type; the subscription stands until the handler throws, and a
\* throw during the dispatch of an event that has not reached the handler
\* yet (for a second event, emitted meanwhile) leaves it not invoked for
\* the first.
C13_LegacyOn ==
    \A s \in DOMAIN subs, e \in DOMAIN events :
        Legacy(s) =>
            /\ \A k \in Invocations(s, e) :
                  Matches(s, e) /\ log[k].arg = [unwrapped |-> events[e].payload]
            /\ (ActiveAt(s, e) /\ Matches(s, e)) =>
                  /\ Cardinality(Invocations(s, e)) <= 1
                  /\ Done(e) =>
                        (Cardinality(Invocations(s, e)) = 1 \/ ReleasedDuring(s, e))
            /\ subs[s].closed => \E r \in reported : r[1] = s

\* A handler passed to on with a descriptor, called with the payload 42 of an
\* event of its name and not called for an event of the other type.
C13_Witness ==
    \E s \in DOMAIN subs, e, f \in DOMAIN events :
        /\ Legacy(s) /\ subs[s].created < e /\ subs[s].created < f
        /\ Done(e) /\ \E k \in Invocations(s, e) : log[k].arg = [unwrapped |-> 42]
        /\ Done(f) /\ ~Matches(s, f) /\ Invocations(s, f) = {}

\* The record emit(descriptor, payload) is to push: {type: descriptor.name,
\* payload}.
C14_Record(e) ==
    /\ events[e].type = events[e].call.tag
    /\ events[e].payload = events[e].call.payload

C15_AsStated ==
    \A e \in DOMAIN events, s \in DOMAIN subs :
        (events[e].call.op = "$emit" /\ Typed(s)) =>
            /\ \A k \in Invocations(s, e) :
                  log[k].arg = [unwrapped |-> events[e].call.payload]
            /\ (Done(e) /\ ActiveAt(s, e) /\ Matches(s, e) /\ ~ReleasedDuring(s, e)) =>
                  Cardinality(Invocations(s, e)) = 1

\* C15 as amended: a handler registered with $on is invoked once for an event
\* of its tag emitted with $emit, and what it is called with is the emitted
\* event itself, {type: "A", payload: 42}, whose payload field is 42.
C15_TypedArg ==
    \A e \in DOMAIN events, s \in DOMAIN subs :
        (events[e].call.op = "$emit" /\ Typed(s)) =>
            /\ \A k \in Invocations(s, e) :
                  log[k].arg = [type |-> events[e].call.tag,
                                payload |-> events[e].call.payload]
            /\ (Done(e) /\ ActiveAt(s, e) /\ Matches(s, e) /\ ~ReleasedDuring(s, e)) =>
                  Cardinality(Invocations(s, e)) = 1

\* The scenario: one handler subscribed with $on, one event of its tag with
\* payload 42 emitted with $emit, the handler called once and the emit done.
C15_Witness ==
    /\ Len(subs) = 1 /\ Typed(1) /\ Len(events) = 1
    /\ events[1].call = [op |-> "$emit", tag |-> subs[1].tag, payload |-> 42]
    /\ Done(1) /\ Len(log) = 1 /\ log[1].h = 1 /\ log[1].arg.payload = 42

\* C16: the handle a group's $on returns is the one the bus's $on made for
\* the subscription; unsubscribing it closes that subscription alone and
\* leaves the others of the group subscribed and in the group; and a later
\* unsubscribe() of the group closes those and raises nothing.
C16_Returned ==
    (last.op = "$on" /\ last.g # "") =>
        /\ last.h = Len(subs)
        /\ subs[last.h].group = last.g
        /\ ~groupSub[last.g].closed =>
              (last.h \in groupSub[last.g].subs /\ last.h \in Range(observers))

C16_Step ==
    /\ \A s \in DOMAIN subs :
          (Handle_unsubscribe(s) /\ subs[s].group # "") =>
              /\ subs'[s].closed /\ s \notin Range(observers')
              /\ \A t \in DOMAIN subs : t # s => subs'[t] = subs[t]
              /\ \A t \in Range(observers) : t # s => t \in Range(observers')
              /\ \A g \in Groups :
                    /\ groupSub'[g].subs = groupSub[g].subs \ {s}
                    /\ groupSub'[g].closed = groupSub[g].closed
              /\ last'.raised = "none"
    /\ \A g \in Groups :
          Group_unsubscribe(g) =>
              /\ last'.raised = "none"
              /\ \A t \in groupSub[g].subs :
                    subs'[t].closed /\ t \notin Range(observers')

C16_GroupHandle == [](C16_Returned) /\ [][C16_Step]_vars

\* Of two subscriptions of a group, one was unsubscribed by its handle; an
\* event of its tag then went to the other and not to it; and the group's
\* unsubscribe() then closed the other.
C16_Witness ==
    /\ last.op = "group.unsubscribe" /\ last.raised = "none" /\ ~last.again
    /\ \E s, t \in DOMAIN subs, e \in DOMAIN events :
          /\ s # t /\ subs[s].group = last.g /\ subs[t].group = last.g
          /\ subs[s].created < e /\ subs[s].closedAt.em < e /\ Matches(s, e)
          /\ Done(e) /\ Invocations(s, e) = {} /\ Invocations(t, e) # {}
          /\ subs[s].closed /\ subs[t].closed
          /\ subs[t].closedAt.em = groupSub[last.g].closedAt

\* The subscriptions a bus $emit of event serves from the current state if no
\* handler interferes: the subscribed ones of its tag, in registration order.
C17_Served(event) ==
    SelectSeq(observers, LAMBDA s : ~subs[s].closed /\ subs[s].tag = event.type)

\* C17: a group's $emit(E) does what $emit(E) on the bus does in the same
\* state, whether or not the group's unsubscribe() was called: it pushes E
\* unmodified, the same handler is served first (and so on through the
\* dispatch), and the group's own subscriptions are left as they are.
C17_Step ==
    \A g \in Groups, event \in BusEvent :
        Group_emit(g, event) =>
            /\ Subject_next(event, EmitCall("$emit", event.type, event.payload))
            /\ Len(events') = Len(events) + 1
            /\ events'[Len(events')].type = event.type
            /\ events'[Len(events')].payload = event.payload
            /\ IF C17_Served(event) = <<>>
               THEN log' = log /\ stack' = stack
               ELSE /\ Len(log') = Len(log) + 1
                    /\ log'[Len(log')].h = C17_Served(event)[1]
                    /\ log'[Len(log')].em = Len(events')
                    /\ log'[Len(log')].arg \in {[type |-> event.type, payload |-> event.payload],
                                                [unwrapped |-> event.payload]}
            /\ groupSub' = groupSub /\ subs' = subs /\ observers' = observers

C17_GroupEmit == [][C17_Step]_vars

\* A group whose unsubscribe() was called emitted an event, and the event was
\* served to a subscription of the bus.
C17_Witness ==
    /\ last.op = "$emit" /\ last.g # "" /\ groupSub[last.g].closed
    /\ events # <<>> /\ Done(Len(events))
    /\ \E s \in DOMAIN subs : Invocations(s, Len(events)) # {}

\* C18 as stated: the dispatch of an event works on the subscribers active
\* when its emit began, whatever the handlers unsubscribe meanwhile: each
\* subscription active and of the event's tag at that point is invoked exactly
\* once for it.
C18_AsStated ==
    \A e \in DOMAIN events, s \in DOMAIN subs :
        (ActiveAt(s, e) /\ Matches(s, e)) =>
            /\ Cardinality(Invocations(s, e)) <= 1
            /\ Done(e) => Cardinality(Invocations(s, e)) = 1

\* C18 as amended: the dispatch of an event works on the subscribers active
\* when its emit began, so a subscription made meanwhile is not invoked for
\* it; but an unsubscribe made by a handler meanwhile takes effect at once:
\* no subscription is invoked after it was unsubscribed, one unsubscribed
\* before its turn is not invoked for the event, every other one active and
\* of the event's tag when the emit began is invoked exactly once, and a
\* handler that unsubscribes itself is not invoked for the event again.
C18_Dispatch ==
    \A e \in DOMAIN events, s \in DOMAIN subs :
        /\ Invocations(s, e) # {} => (ActiveAt(s, e) /\ Matches(s, e))
        /\ Cardinality(Invocations(s, e)) <= 1
        /\ \A k \in Invocations(s, e) : subs[s].closed => k <= subs[s].closedAt.seen
        /\ (Done(e) /\ ActiveAt(s, e) /\ Matches(s, e)) =>
              (Cardinality(Invocations(s, e)) = 1 \/ ReleasedDuring(s, e))

\* During the dispatch of an event to two subscriptions of its tag, the
\* handler of the first unsubscribed its own subscription and the second:
\* the first was invoked once, the second not at all.
C18_Witness ==
    \E e \in DOMAIN events, s, t \in DOMAIN subs :
        /\ Done(e) /\ s < t
        /\ ActiveAt(s, e) /\ Matches(s, e) /\ ActiveAt(t, e) /\ Matches(t, e)
        /\ subs[s].closed /\ e \in subs[s].closedAt.during
        /\ Cardinality(Invocations(s, e)) = 1
        /\ Invocations(s, e) = {subs[s].closedAt.seen}
        /\ ReleasedDuring(t, e)
        /\ <<s, e>> \notin reported

\* C19: once a group's unsubscribe() was called, its composite stays closed
\* and is not replaced; a subscription added through the group's $on after
\* that is released on being added, and its handler is invoked for no emit;
\* subscriptions made on the bus itself after that are served as usual.
C19_Step ==
    \A g \in Groups :
        groupSub[g].closed =>
            /\ groupSub'[g].closed /\ groupSub'[g].defined
            /\ groupSub'[g].closedAt = groupSub[g].closedAt
            /\ \A typeFilter \in BusEventType :
                  Group_on(g, typeFilter) =>
                      /\ subs'[Len(subs')].closed /\ subs'[Len(subs')].group = g
                      /\ observers' = observers
                      /\ groupSub'[g].subs = {}

C19_Released ==
    /\ \A s \in DOMAIN subs :
          subs[s].released =>
              /\ subs[s].closed /\ s \notin Range(observers)
              /\ \A e \in DOMAIN events : Invocations(s, e) = {}
    /\ \A s \in DOMAIN subs :
          (subs[s].group # "" /\ ~subs[s].released) =>
              (~groupSub[subs[s].group].closed
                  \/ subs[s].created <= groupSub[subs[s].group].closedAt)
    /\ \A g \in Groups, e \in DOMAIN events, t \in DOMAIN subs :
          (/\ groupSub[g].closed /\ subs[t].group = ""
           /\ subs[t].created >= groupSub[g].closedAt
           /\ Done(e) /\ ActiveAt(t, e) /\ Matches(t, e) /\ ~subs[t].closed) =>
              Cardinality(Invocations(t, e)) = 1

====
